---- MODULE Spec2Model ----
(***************************************************************************)
(* State-machine model of the NGO controller                               *)
(* (Backend/src/controllers/users/ngo.controller.js).                      *)
(*                                                                         *)
(* The persistence store is the state: the NGO collection, the Facility    *)
(* collection, the audit log and the calls made to the notification        *)
(* service.  Handlers that load an NGO document, await, and save it later  *)
(* (registerNGO, loginNGO/generateTokens, logoutNGO, changePassword) are   *)
(* split at the await between the read and the write, so that requests     *)
(* interleave there.  manageFacility, updateNGOProfile and                 *)
(* resendVerificationOtp are one action per call.                          *)
(***************************************************************************)
EXTENDS Integers, Sequences, FiniteSets, TLC

VARIABLES
    ngos,            \* NGO collection: sequence of documents, _id = index
    activities,      \* Activity collection: ids of NGOs with an NGO_REGISTERED record
    facilities,      \* Facility collection: function _id -> document
    nextFacilityId,  \* next _id the store hands out to Facility.create
    notifications,   \* calls made to notificationService, in order
    nextToken,       \* next refresh token generateRefreshToken() signs
    procs,           \* in-flight requests: position and locals of each handler
    revoked,         \* history: per NGO, the token values stored when a logout completed
    resp             \* the last response written: request, status code, data

vars == <<ngos, activities, facilities, nextFacilityId, notifications,
          nextToken, procs, revoked, resp>>

accountVars == <<ngos, activities, nextToken, procs, revoked>>
facilityVars == <<facilities, nextFacilityId, notifications>>

----------------------------------------------------------------------------
(* Bounds *)

MaxFacilities == 1   \* Facility.create calls explored
MaxTokens == 2       \* refresh tokens issued

NgoIds == 1..2
Emails == {"a@b.org", "c@d.org"}
RegNumbers == {"R-1", "R-2"}
Procs == {"r1", "r2"}   \* requests in flight at once

----------------------------------------------------------------------------
(* Enums and constants of the controller *)

NGO_STATUS == {"PENDING", "ACTIVE", "SUSPENDED", "BLACKLISTED"}

FACILITY_OPERATIONS == {"create", "update", "delete", "suspend", "activate", "LIST"}

FACILITY_TYPE == {"CAMP", "CENTER"}

\* A value JavaScript reads as undefined / null
Absent == "absent"
NoNgo == 0
NoToken == 0

\* Status of the response when an exception that is no ApiError leaves the handler
UnhandledError == 500

NoData == [none |-> TRUE]

Response(op, req, status, data) ==
    [op |-> op, req |-> req, status |-> status, data |-> data]

----------------------------------------------------------------------------
(* Facility management *)

\* Request bodies a client can send to manageFacility
FacilityBodies ==
    [type : {"CAMP", "CENTER", Absent},
     ngoId : NgoIds \cup {NoNgo},
     status : {"ACTIVE", Absent}]

\* A body that carries none of these fields
EmptyBody == [type |-> Absent, ngoId |-> NoNgo, status |-> Absent]

\* The bodies that tell calls of one action apart: only create and update read
\* req.body
BodiesFor(action) ==
    IF action \in {"create", "update"} THEN FacilityBodies ELSE {EmptyBody}

\* Facility.create({...req.body, ngoId, facilityType, status, location})
CreateDocNoOverride(body, ngoId) ==
    [ngoId |-> IF body.ngoId # NoNgo THEN body.ngoId ELSE ngoId,
     facilityType |-> IF body.type = "CAMP" THEN "CAMP" ELSE "CENTER",
     status |-> IF body.type = "CAMP" THEN "PLANNED" ELSE "INACTIVE"]

CreateDoc(body, ngoId) ==
    [ngoId |-> ngoId,
     facilityType |-> IF body.type = "CAMP" THEN "CAMP" ELSE "CENTER",
     status |-> IF body.type = "CAMP" THEN "PLANNED" ELSE "INACTIVE"]

\* Object.assign(facility, req.body): every field the body carries overwrites
AssignBody(facility, body) ==
    [ngoId |-> IF body.ngoId # NoNgo THEN body.ngoId ELSE facility.ngoId,
     facilityType |-> facility.facilityType,
     status |-> IF body.status # Absent THEN body.status ELSE facility.status]

\* Facility.findOne({_id: req.params.facilityId, ngoId})
FindOwnedAnyOwner(facilityId, ngoId) ==
    facilityId \in DOMAIN facilities

FindOwned(facilityId, ngoId) ==
    /\ facilityId \in DOMAIN facilities
    /\ facilities[facilityId].ngoId = ngoId

\* Facility.find({ngoId})
FindByNgo(ngoId) ==
    {[_id |-> f, doc |-> facilities[f]] :
        f \in {g \in DOMAIN facilities : facilities[g].ngoId = ngoId}}

\* The payload notifyNearbyDonors hands to sendBulkNotifications
BulkCall(facilityId, facility) ==
    [service |-> "sendBulkNotifications",
     template |-> "NEW_FACILITY_ANNOUNCEMENT",
     facilityId |-> facilityId,
     facilityType |-> facility.facilityType]

\* req.ngo.status !== NGO_STATUS.ACTIVE guards every facility operation
NgoIsActiveUnchecked(status) == TRUE

NgoIsActive(status) == status = "ACTIVE"

\* if (facility.facilityType === FACILITY_TYPE.CAMP) await notifyNearbyDonors(facility)
NotifiesOnCreateAnyType(facility) == TRUE

NotifiesOnCreate(facility) == facility.facilityType = "CAMP"

\* The cases of switch (action); every other action reaches default
IsMutationNoDefault(action) == TRUE

IsMutation(action) == action \in {"update", "delete", "suspend", "activate"}

\* The facility collection after the case of switch (action) has run
Mutated(action, facilityId, body) ==
    IF action = "update"
    THEN [facilities EXCEPT ![facilityId] = AssignBody(facilities[facilityId], body)]
    ELSE IF action = "delete"
    THEN [f \in DOMAIN facilities \ {facilityId} |-> facilities[f]]
    ELSE IF action = "suspend"
    THEN [facilities EXCEPT ![facilityId].status = "SUSPENDED"]
    ELSE IF action = "activate"
    THEN [facilities EXCEPT ![facilityId].status = "ACTIVE"]
    ELSE facilities

FacilityRequest(ngoId, status, action, facilityId) ==
    [ngoId |-> ngoId, status |-> status, action |-> action, facilityId |-> facilityId]

\* What the collaborators of notifyNearbyDonors can do: User.find rejects,
\* sendBulkNotifications rejects, or both resolve
NotifyOutcomes == {"delivered", "queryFails", "dispatchFails"}

\* manageFacility, action === "create"
CreateFacility(req, body, notifyOutcome) ==
    LET facility == CreateDoc(body, req.ngoId)
        id == nextFacilityId
        created == [_id |-> id, doc |-> facility]
    IN  /\ nextFacilityId <= MaxFacilities
        /\ facilities' = [f \in DOMAIN facilities \cup {id} |->
                            IF f = id THEN facility ELSE facilities[f]]
        /\ nextFacilityId' = nextFacilityId + 1
        /\ IF ~NotifiesOnCreate(facility)
           THEN /\ notifications' = notifications
                /\ resp' = Response("manageFacility", req, 201, created)
           ELSE IF notifyOutcome = "queryFails"
           THEN \* User.find rejects: notifyNearbyDonors throws before the dispatch
                /\ notifications' = notifications
                /\ resp' = Response("manageFacility", req, UnhandledError, NoData)
           ELSE /\ notifications' = Append(notifications, BulkCall(id, facility))
                /\ resp' = IF notifyOutcome = "delivered"
                           THEN Response("manageFacility", req, 201, created)
                           ELSE Response("manageFacility", req, UnhandledError, NoData)

\* manageFacility: one call, from the status guard to the response
ManageFacility(ngoId, status, action, facilityId) ==
    LET req == FacilityRequest(ngoId, status, action, facilityId)
    IN  /\ UNCHANGED accountVars
        /\ IF ~NgoIsActive(status)
           THEN /\ resp' = Response("manageFacility", req, 403, NoData)
                /\ UNCHANGED facilityVars
           ELSE IF action = "create"
           THEN \E body \in FacilityBodies, notifyOutcome \in NotifyOutcomes :
                    CreateFacility(req, body, notifyOutcome)
           ELSE IF action = "LIST"
           THEN /\ resp' = Response("manageFacility", req, 200, FindByNgo(ngoId))
                /\ UNCHANGED facilityVars
           ELSE IF ~FindOwned(facilityId, ngoId)
           THEN /\ resp' = Response("manageFacility", req, 404, NoData)
                /\ UNCHANGED facilityVars
           ELSE IF ~IsMutation(action)
           THEN /\ resp' = Response("manageFacility", req, 400, NoData)
                /\ UNCHANGED facilityVars
           ELSE \E body \in BodiesFor(action) :
                    /\ facilities' = Mutated(action, facilityId, body)
                    /\ resp' = Response("manageFacility", req, 200,
                                  IF action = "delete"
                                  THEN [_id |-> facilityId, doc |-> facilities[facilityId]]
                                  ELSE [_id |-> facilityId,
                                        doc |-> facilities'[facilityId]])
                    /\ UNCHANGED <<nextFacilityId, notifications>>

FacilityActions == FACILITY_OPERATIONS \cup {"archive"}

FacilityIds == 1..MaxFacilities

----------------------------------------------------------------------------
(* Account lifecycle *)

MinPasswordLength == 8

Passwords == {"short", "longenough1", "longenough2"}

PasswordLength(password) == IF password = "short" THEN 5 ELSE 11

\* Request bodies a client can send to registerNGO
RegisterBodies ==
    [name : {"Helping Hands", Absent},
     email : Emails \cup {Absent},
     password : {"short", "longenough1", Absent},
     contactPerson : {"complete", Absent},
     regNumber : RegNumbers \cup {Absent}]

\* The registration of the one account the session handlers act on
SessionRegisterBodies ==
    {[name |-> "Helping Hands", email |-> "a@b.org", password |-> "longenough1",
      contactPerson |-> "complete", regNumber |-> "R-1"]}

\* The validation block of registerNGO: TRUE when no ApiError(400) is thrown
RegistrationValid(body) ==
    /\ body.name # Absent
    /\ body.email # Absent
    /\ body.password # Absent
    /\ PasswordLength(body.password) >= MinPasswordLength
    /\ body.contactPerson # Absent
    /\ body.regNumber # Absent

\* NGO.findOne({ $or: [{ email }, { regNumber }] })
ExistingNGO(email, regNumber) ==
    {n \in DOMAIN ngos : ngos[n].email = email \/ ngos[n].regNumber = regNumber}

\* NGO.findOne({ email })
FindByEmail(email) == {n \in DOMAIN ngos : ngos[n].email = email}

\* The unique indexes of the NGO collection on email and on regNumber
UniqueIndexAccepts(email, regNumber) ==
    \A n \in DOMAIN ngos : ngos[n].email # email /\ ngos[n].regNumber # regNumber

\* The document NGO.create inserts
NewNGO(email, regNumber, password) ==
    [email |-> email,
     regNumber |-> regNumber,
     password |-> password,
     verificationStatus |-> "PENDING",
     refreshToken |-> NoToken,
     verificationOtp |-> Absent]

Idle == [pc |-> "idle"]

\* registerNGO up to the await of NGO.findOne: validation and the existence check
RegisterCheck(p, body) ==
    /\ procs[p].pc = "idle"
    /\ UNCHANGED <<ngos, activities, nextToken, revoked, facilityVars>>
    /\ IF ~RegistrationValid(body)
       THEN /\ resp' = Response("registerNGO", [email |-> body.email], 400, NoData)
            /\ UNCHANGED procs
       ELSE IF ExistingNGO(body.email, body.regNumber) # {}
       THEN /\ resp' = Response("registerNGO", [email |-> body.email], 409, NoData)
            /\ UNCHANGED procs
       ELSE /\ procs' = [procs EXCEPT ![p] =
                            [pc |-> "register_create", email |-> body.email,
                             regNumber |-> body.regNumber, password |-> body.password]]
            /\ UNCHANGED resp

\* registerNGO from NGO.create to the response
RegisterCreate(p) ==
    LET email == procs[p].email
        regNumber == procs[p].regNumber
        id == Len(ngos) + 1
    IN  /\ procs[p].pc = "register_create"
        /\ procs' = [procs EXCEPT ![p] = Idle]
        /\ UNCHANGED <<nextToken, revoked, facilityVars>>
        /\ IF ~UniqueIndexAccepts(email, regNumber)
           THEN \* the store rejects the insert; the exception leaves the handler
                /\ resp' = Response("registerNGO", [email |-> email], UnhandledError, NoData)
                /\ UNCHANGED <<ngos, activities>>
           ELSE /\ ngos' = Append(ngos, NewNGO(email, regNumber, procs[p].password))
                /\ activities' = activities \cup {id}
                /\ resp' = Response("registerNGO", [email |-> email], 201,
                              [_id |-> id, email |-> email, status |-> "PENDING"])

\* ngo.comparePassword(password)
ComparePassword(doc, password) == doc.password = password

\* ngo.generateRefreshToken(): a value no earlier call returned
GenerateRefreshToken == nextToken

\* loginNGO up to the await of ngo.save inside generateTokens
LoginLoad(p, email, password) ==
    /\ procs[p].pc = "idle"
    /\ UNCHANGED <<ngos, activities, revoked, facilityVars>>
    /\ IF email = Absent \/ password = Absent
       THEN /\ resp' = Response("loginNGO", NoData, 400, NoData)
            /\ UNCHANGED <<procs, nextToken>>
       ELSE IF FindByEmail(email) = {}
       THEN /\ resp' = Response("loginNGO", NoData, 404, NoData)
            /\ UNCHANGED <<procs, nextToken>>
       ELSE LET ngoId == CHOOSE n \in FindByEmail(email) : TRUE
            IN  IF ~ComparePassword(ngos[ngoId], password)
                THEN /\ resp' = Response("loginNGO", NoData, 401, NoData)
                     /\ UNCHANGED <<procs, nextToken>>
                ELSE /\ nextToken <= MaxTokens
                     /\ procs' = [procs EXCEPT ![p] =
                                     [pc |-> "generateTokens_save", ngoId |-> ngoId,
                                      doc |-> ngos[ngoId],
                                      refreshToken |-> GenerateRefreshToken]]
                     /\ nextToken' = nextToken + 1
                     /\ UNCHANGED resp

\* ngo.save(): Mongoose writes the paths the handler modified on its copy
SaveWholeDocument(ngoId, doc, changes) ==
    [ngos EXCEPT ![ngoId] =
        [f \in DOMAIN doc |-> IF f \in DOMAIN changes THEN changes[f] ELSE doc[f]]]

SaveModifiedPaths(ngoId, doc, changes) ==
    [ngos EXCEPT ![ngoId] =
        [f \in DOMAIN ngos[ngoId] |->
            IF f \in DOMAIN changes THEN changes[f] ELSE ngos[ngoId][f]]]

\* generateTokens: ngo.refreshToken = refreshToken; await ngo.save(); then the
\* response of loginNGO
GenerateTokensSave(p) ==
    LET ngoId == procs[p].ngoId
        refreshToken == procs[p].refreshToken
    IN  /\ procs[p].pc = "generateTokens_save"
        /\ ngos' = SaveModifiedPaths(ngoId, procs[p].doc, [refreshToken |-> refreshToken])
        /\ procs' = [procs EXCEPT ![p] = Idle]
        /\ resp' = Response("loginNGO", NoData, 200,
                      [refreshToken |-> refreshToken])
        /\ UNCHANGED <<activities, nextToken, revoked, facilityVars>>

\* logoutNGO up to the await of NGO.findById
LogoutLoad(p, ngoId) ==
    /\ procs[p].pc = "idle"
    /\ UNCHANGED <<ngos, activities, nextToken, revoked, facilityVars>>
    /\ IF ngoId \notin DOMAIN ngos
       THEN /\ resp' = Response("logoutNGO", [ngoId |-> ngoId], 404, NoData)
            /\ UNCHANGED procs
       ELSE /\ procs' = [procs EXCEPT ![p] =
                            [pc |-> "logout_save", ngoId |-> ngoId, doc |-> ngos[ngoId]]]
            /\ UNCHANGED resp

\* What logoutNGO assigns to ngo.refreshToken
LogoutKeepsToken(doc) == doc.refreshToken

LogoutToken(doc) == NoToken

\* logoutNGO: ngo.refreshToken = null; await ngo.save(); response
LogoutSave(p) ==
    LET ngoId == procs[p].ngoId
    IN  /\ procs[p].pc = "logout_save"
        /\ ngos' = SaveModifiedPaths(ngoId, procs[p].doc,
                      [refreshToken |-> LogoutToken(procs[p].doc)])
        /\ revoked' = [revoked EXCEPT ![ngoId] =
                          @ \cup ({ngos[ngoId].refreshToken} \ {NoToken})]
        /\ procs' = [procs EXCEPT ![p] = Idle]
        /\ resp' = Response("logoutNGO", [ngoId |-> ngoId], 200, NoData)
        /\ UNCHANGED <<activities, nextToken, facilityVars>>

\* changePassword up to the await of ngo.save
ChangePasswordLoad(p, ngoId, oldPassword, newPassword) ==
    /\ procs[p].pc = "idle"
    /\ UNCHANGED <<ngos, activities, nextToken, revoked, facilityVars>>
    /\ IF oldPassword = Absent \/ newPassword = Absent
       THEN /\ resp' = Response("changePassword", [ngoId |-> ngoId], 400, NoData)
            /\ UNCHANGED procs
       ELSE IF ngoId \notin DOMAIN ngos
       THEN /\ resp' = Response("changePassword", [ngoId |-> ngoId], 404, NoData)
            /\ UNCHANGED procs
       ELSE IF ~ComparePassword(ngos[ngoId], oldPassword)
       THEN /\ resp' = Response("changePassword", [ngoId |-> ngoId], 401, NoData)
            /\ UNCHANGED procs
       ELSE /\ procs' = [procs EXCEPT ![p] =
                            [pc |-> "changePassword_save", ngoId |-> ngoId,
                             doc |-> ngos[ngoId], newPassword |-> newPassword]]
            /\ UNCHANGED resp

\* changePassword: ngo.password = newPassword; await ngo.save(); response
ChangePasswordSave(p) ==
    LET ngoId == procs[p].ngoId
    IN  /\ procs[p].pc = "changePassword_save"
        /\ ngos' = SaveModifiedPaths(ngoId, procs[p].doc,
                      [password |-> procs[p].newPassword])
        /\ procs' = [procs EXCEPT ![p] = Idle]
        /\ resp' = Response("changePassword", [ngoId |-> ngoId], 200, NoData)
        /\ UNCHANGED <<activities, nextToken, revoked, facilityVars>>

\* Request bodies a client can send to updateNGOProfile: the fields of the NGO
\* document the body can name (0 / Absent: the body does not carry the field)
ProfileBodies ==
    [verificationStatus : NGO_STATUS \cup {Absent},
     refreshToken : NoToken..(nextToken - 1)]

\* updateNGOProfile: NGO.findByIdAndUpdate(ngoId, {...req.body}, ...)
UpdateNGOProfile(ngoId, body) ==
    /\ UNCHANGED <<activities, nextToken, procs, revoked, facilityVars>>
    /\ IF ngoId \notin DOMAIN ngos
       THEN /\ resp' = Response("updateNGOProfile", [ngoId |-> ngoId], 404, NoData)
            /\ UNCHANGED ngos
       ELSE /\ ngos' = [ngos EXCEPT ![ngoId] =
                          [@ EXCEPT
                             !.verificationStatus =
                                 IF body.verificationStatus # Absent
                                 THEN body.verificationStatus ELSE @,
                             !.refreshToken =
                                 IF body.refreshToken # NoToken
                                 THEN body.refreshToken ELSE @]]
            /\ resp' = Response("updateNGOProfile", [ngoId |-> ngoId], 200,
                          [verificationStatus |-> ngos'[ngoId].verificationStatus])

\* Whether the module scope binds the name generateOtp: it is neither imported
\* nor declared, so the call raises a ReferenceError
GenerateOtpBound == FALSE

Otps == {"otp1", "otp2"}

\* ngo.verificationStatus !== NGO_STATUS.PENDING
OtpAllowedAlways(doc) == TRUE

OtpAllowed(doc) == doc.verificationStatus = "PENDING"

\* resendVerificationOtp
ResendVerificationOtp(ngoId) ==
    LET req == [ngoId |-> ngoId]
    IN  /\ UNCHANGED <<activities, nextToken, procs, revoked, facilities, nextFacilityId>>
        /\ IF ngoId \notin DOMAIN ngos
           THEN /\ resp' = Response("resendVerificationOtp", req, 404, NoData)
                /\ UNCHANGED <<ngos, notifications>>
           ELSE IF ~OtpAllowed(ngos[ngoId])
           THEN /\ resp' = Response("resendVerificationOtp", req, 400, NoData)
                /\ UNCHANGED <<ngos, notifications>>
           ELSE IF ~GenerateOtpBound
           THEN /\ resp' = Response("resendVerificationOtp", req, UnhandledError, NoData)
                /\ UNCHANGED <<ngos, notifications>>
           ELSE \E otp \in Otps :
                    /\ ngos' = [ngos EXCEPT ![ngoId].verificationOtp = otp]
                    /\ notifications' = Append(notifications,
                          [service |-> "sendNotification",
                           recipient |-> ngos[ngoId].email, otp |-> otp])
                    /\ resp' = Response("resendVerificationOtp", req, 200, NoData)

----------------------------------------------------------------------------
Init ==
    /\ ngos = <<>>
    /\ activities = {}
    /\ facilities = <<>>
    /\ nextFacilityId = 1
    /\ notifications = <<>>
    /\ nextToken = 1
    /\ procs = [p \in Procs |-> [pc |-> "idle"]]
    /\ revoked = [n \in NgoIds |-> {}]
    /\ resp = Response("none", NoData, 0, NoData)

NextFacility ==
    \E ngoId \in NgoIds, status \in NGO_STATUS, action \in FacilityActions,
       facilityId \in FacilityIds :
        ManageFacility(ngoId, status, action, facilityId)

SpecFacility == Init /\ [][NextFacility]_vars

Register ==
    \/ \E p \in Procs, body \in RegisterBodies : RegisterCheck(p, body)
    \/ \E p \in Procs : RegisterCreate(p)

SessionRegister ==
    \/ \E p \in Procs, body \in SessionRegisterBodies : RegisterCheck(p, body)
    \/ \E p \in Procs : RegisterCreate(p)

Login ==
    \/ \E p \in Procs, email \in Emails \cup {Absent},
          password \in {"longenough1", "longenough2", Absent} :
            LoginLoad(p, email, password)
    \/ \E p \in Procs : GenerateTokensSave(p)

Logout ==
    \/ \E p \in Procs, ngoId \in NgoIds : LogoutLoad(p, ngoId)
    \/ \E p \in Procs : LogoutSave(p)

ChangePassword ==
    \/ \E p \in Procs, ngoId \in NgoIds,
          oldPassword \in {"longenough1", Absent}, newPassword \in {"longenough2", Absent} :
            ChangePasswordLoad(p, ngoId, oldPassword, newPassword)
    \/ \E p \in Procs : ChangePasswordSave(p)

UpdateProfile ==
    \E ngoId \in NgoIds, body \in ProfileBodies : UpdateNGOProfile(ngoId, body)

ResendOtp ==
    \E ngoId \in NgoIds : ResendVerificationOtp(ngoId)

\* Registration and verification: concurrent registerNGO calls over every
\* request body, with updateNGOProfile and resendVerificationOtp
NextRegistration == Register \/ UpdateProfile \/ ResendOtp

SpecRegistration == Init /\ [][NextRegistration]_vars

\* One account and the handlers that load its document, await, and save it
NextSession == SessionRegister \/ Login \/ Logout \/ ChangePassword

SpecSession == Init /\ [][NextSession]_vars

\* One account and every account handler
NextAccount == NextSession \/ UpdateProfile \/ ResendOtp

SpecAccount == Init /\ [][NextAccount]_vars

----------------------------------------------------------------------------
(* Properties *)

OwnerOps == {"update", "delete", "suspend", "activate"}

\* C1: a registerNGO call for an email or registration number that is already
\* stored is answered 409 and inserts nothing, also when it passed the
\* NGO.findOne check before the other call's NGO.create; no two NGO documents
\* ever share an email or a registration number.
C1_DuplicateYields409 ==
    [][ /\ \A m, n \in DOMAIN ngos' :
              m # n => /\ ngos'[m].email # ngos'[n].email
                       /\ ngos'[m].regNumber # ngos'[n].regNumber
        /\ \A p \in Procs :
              (/\ RegisterCreate(p)
               /\ ~UniqueIndexAccepts(procs[p].email, procs[p].regNumber))
              => (resp'.status = 409 /\ ngos' = ngos) ]_vars

\* The step is a manageFacility call; resp' records its request
FacilityCall ==
    /\ resp'.op = "manageFacility"
    /\ ManageFacility(resp'.req.ngoId, resp'.req.status, resp'.req.action,
                      resp'.req.facilityId)

\* C2: manageFacility 'create' by an NGO whose status is not ACTIVE is answered
\* 403, stores no facility and dispatches no notification.
C2_InactiveCreateRejected ==
    [][ (/\ FacilityCall
         /\ resp'.req.action = "create"
         /\ resp'.req.status \in NGO_STATUS \ {"ACTIVE"})
        => /\ resp'.status = 403
           /\ resp'.data = NoData
           /\ UNCHANGED <<facilities, nextFacilityId, notifications>> ]_vars

C2_Witness ==
    /\ resp.op = "manageFacility"
    /\ resp.req.action = "create"
    /\ resp.req.status \in {"PENDING", "SUSPENDED", "BLACKLISTED"}
    /\ resp.status = 403

\* The step is an update, delete, suspend or activate call on a stored facility
\* whose owner is not the caller
ForeignCall ==
    /\ FacilityCall
    /\ resp'.req.action \in OwnerOps
    /\ resp'.req.facilityId \in DOMAIN facilities
    /\ facilities[resp'.req.facilityId].ngoId # resp'.req.ngoId

\* C3 as stated: update, delete, suspend or activate by any NGO B on a facility
\* owned by another NGO is answered 404, returns no field of the facility and
\* leaves the facility collection unchanged.
C3_ForeignAlways404 ==
    [][ ForeignCall
        => /\ resp'.status = 404
           /\ resp'.data = NoData
           /\ facilities' = facilities ]_vars

\* C3 amended: update, delete, suspend or activate by an NGO B on a facility
\* owned by another NGO is answered 404 when B's status is ACTIVE and 403 when
\* it is not; either way the response carries no field of the facility and the
\* facility collection is unchanged.
C3_ForeignRejected ==
    [][ ForeignCall
        => /\ resp'.status = IF resp'.req.status = "ACTIVE" THEN 404 ELSE 403
           /\ resp'.data = NoData
           /\ facilities' = facilities ]_vars

C3_Witness ==
    /\ resp.op = "manageFacility"
    /\ resp.req.action \in OwnerOps
    /\ resp.req.status = "ACTIVE"
    /\ resp.req.facilityId \in DOMAIN facilities
    /\ facilities[resp.req.facilityId].ngoId # resp.req.ngoId
    /\ resp.status = 404

\* C4: a 'create' answered 201 that stored a CAMP made exactly one
\* sendBulkNotifications call, for that facility; one that stored a CENTER made
\* none; no call makes more than one; LIST, update, delete, suspend, activate
\* and unrecognized actions make none.
C4_OneDispatchPerCamp ==
    [][ FacilityCall
        => /\ Len(notifications') <= Len(notifications) + 1
           /\ resp'.req.action # "create" => notifications' = notifications
           /\ (resp'.req.action = "create" /\ resp'.status = 201)
              => IF resp'.data.doc.facilityType = "CAMP"
                 THEN notifications' =
                        Append(notifications, BulkCall(resp'.data._id, resp'.data.doc))
                 ELSE notifications' = notifications ]_vars

C4_Witness ==
    /\ resp.op = "manageFacility"
    /\ resp.req.action = "create"
    /\ resp.status = 201
    /\ resp.data.doc.facilityType = "CAMP"
    /\ Len(notifications) = 1
    /\ notifications[1].facilityId = resp.data._id

\* C5: every 'create' that stores a CAMP is answered 201 with the record
\* stored, whatever the donor query and the dispatch do.
C5_CampCreateAlways201 ==
    [][ (/\ FacilityCall
         /\ resp'.req.action = "create"
         /\ nextFacilityId \in DOMAIN facilities'
         /\ facilities'[nextFacilityId].facilityType = "CAMP")
        => resp'.status = 201 ]_vars

\* The step is a call by an ACTIVE NGO with an unrecognized action
InvalidCall ==
    /\ FacilityCall
    /\ resp'.req.status = "ACTIVE"
    /\ resp'.req.action \notin FACILITY_OPERATIONS

\* C6 as stated: an unrecognized action by an ACTIVE NGO is answered 400 whether
\* or not facilityId names a facility the caller owns, and changes no facility.
C6_InvalidAlways400 ==
    [][ InvalidCall
        => /\ resp'.status = 400
           /\ facilities' = facilities ]_vars

\* C6 amended: an unrecognized action by an ACTIVE NGO is answered with a client
\* error and changes no facility: 400 when facilityId names a facility the
\* caller owns, 404 when it does not.
C6_InvalidRejected ==
    [][ InvalidCall
        => /\ resp'.status =
                IF /\ resp'.req.facilityId \in DOMAIN facilities
                   /\ facilities[resp'.req.facilityId].ngoId = resp'.req.ngoId
                THEN 400 ELSE 404
           /\ resp'.data = NoData
           /\ UNCHANGED <<facilities, nextFacilityId, notifications>> ]_vars

C6_Witness ==
    /\ resp.op = "manageFacility"
    /\ resp.req.action \notin FACILITY_OPERATIONS
    /\ resp.req.status = "ACTIVE"
    /\ resp.req.facilityId \in DOMAIN facilities
    /\ facilities[resp.req.facilityId].ngoId = resp.req.ngoId
    /\ resp.status = 400

C8_PendingGetsOtp ==
    [][ \A n \in DOMAIN ngos :
            (ngos[n].verificationStatus = "PENDING" /\ ResendVerificationOtp(n))
            => /\ resp'.status = 200
               /\ ngos'[n].verificationOtp # Absent
               /\ notifications' =
                    Append(notifications,
                           [service |-> "sendNotification",
                            recipient |-> ngos[n].email,
                            otp |-> ngos'[n].verificationOtp]) ]_vars

\* C9: resendVerificationOtp for an NGO whose verification status is not
\* PENDING is answered 400, leaves the NGO document (its verificationOtp
\* included) unchanged and makes no notification call.
C9_NotPendingRejected ==
    [][ \A n \in DOMAIN ngos :
            (ngos[n].verificationStatus # "PENDING" /\ ResendVerificationOtp(n))
            => /\ resp'.status = 400
               /\ ngos' = ngos
               /\ notifications' = notifications ]_vars

C9_Witness ==
    /\ resp.op = "resendVerificationOtp"
    /\ resp.status = 400
    /\ resp.req.ngoId \in DOMAIN ngos
    /\ ngos[resp.req.ngoId].verificationStatus \in {"ACTIVE", "SUSPENDED", "BLACKLISTED"}

\* C10: a stored facility's ngoId never changes, and a facility a 'create'
\* stores carries the ngoId of the NGO that made the call, whatever the body.
C10_OwnershipImmutable ==
    [][ /\ \A f \in DOMAIN facilities \cap DOMAIN facilities' :
              facilities'[f].ngoId = facilities[f].ngoId
        /\ \A f \in DOMAIN facilities' \ DOMAIN facilities :
              facilities'[f].ngoId = resp'.req.ngoId ]_vars

====
